---- MODULE Spec2Model ----
(***************************************************************************)
(* weight_log.py, the "generate" command: main() builds a WeightLog, calls *)
(* parse_log(WEIGHT_LOG), compute_weekly_averages() and                    *)
(* write_to_csv(OUTPUT_FILE), in that order, in one thread.                *)
(*                                                                         *)
(* Dates are whole days since 1970-01-01 (a Thursday), so that             *)
(* datetime_to_epoch is computed with its real factors and stays inside    *)
(* TLC's integers: day 3 is Sunday 1970-01-04, day 10 and day 17 are the   *)
(* next two Sundays.  A datetime is [day, minute], minute = minutes since  *)
(* midnight (TIME_FORMAT has minute precision).  Weights are in tenths of  *)
(* a pound; the weights used are multiples of 0.5 lb, for which the        *)
(* floating-point sums of the code are exact.                              *)
(***************************************************************************)
EXTENDS Integers, Sequences, FiniteSets, TLC

\* ---- bounds of the model ------------------------------------------------
MaxLen == 2      \* most records in the log file
MinDay == 3      \* earliest calendar day of a record (a Sunday)
MaxDay == 17     \* latest calendar day of a record (two Sundays later)

\* ---- program constants --------------------------------------------------
MsPerDay == 86400000     \* total_seconds() * 1000 of one day
MsPerMinute == 60000     \* total_seconds() * 1000 of one minute
EndOfDayMinute == 1439   \* time(23,59)
SUNDAY == 6              \* date.weekday() of a Sunday

Days == MinDay .. MaxDay
Minutes == {480, EndOfDayMinute}       \* 08:00 and 23:59
Weights == {1500, 1515}                \* 150.0 lb and 151.5 lb
None == -1                             \* Python's None in an integer field
Empty == << >>                         \* the "" of an absent csv field

\* One line of the log file, "<datestring>,<weight>": ts_ok says whether the
\* datestring conforms to TIME_FORMAT, w_ok whether float(weight) succeeds.
GoodLines ==
  { [ts_ok |-> TRUE, w_ok |-> TRUE, datetime |-> [day |-> d, minute |-> m], weight |-> w] :
      d \in Days, m \in Minutes, w \in Weights }
BadTimestampLine ==
  [ts_ok |-> FALSE, w_ok |-> TRUE, datetime |-> [day |-> MinDay, minute |-> 480], weight |-> 1500]
BadWeightLine ==
  [ts_ok |-> TRUE, w_ok |-> FALSE, datetime |-> [day |-> MinDay, minute |-> 480], weight |-> 1500]
Lines == GoodLines \cup {BadTimestampLine, BadWeightLine}

\* The log file: absent, or a sequence of lines in file order (any order).
Files ==
  { [exists |-> FALSE, lines |-> << >>] } \cup
  { [exists |-> TRUE, lines |-> l] : l \in UNION { [1..n -> Lines] : n \in 0..MaxLen } }

\* The output file before the run: absent, or left by an earlier run.
OutFiles == { [status |-> "absent", rows |-> << >>], [status |-> "stale", rows |-> << >>] }

VARIABLES
  pc,               \* position of main(): start, parsed, computed, done, exited
  err,              \* what ended the run early ("none" when nothing did)
  file,             \* WEIGHT_LOG on disk
  outfile,          \* OUTPUT_FILE on disk
  log_entries,      \* WeightLog.log_entries
  num_entries,      \* WeightLog.num_entries
  start_date,       \* WeightLog.start_date
  end_date,         \* WeightLog.end_date
  sundays,          \* local of compute_weekly_averages
  buckets,          \* per sunday, the entries appended to total_weight (as indices)
  weekly_averages,  \* WeightLog.weekly_averages
  span_error        \* the "must span at least one week" message was printed

vars == << pc, err, file, outfile, log_entries, num_entries, start_date, end_date,
           sundays, buckets, weekly_averages, span_error >>

\* ---- helpers of the datetime module as the code uses them ----------------
\* date.weekday(): Monday = 0 ... Sunday = 6; day 0 (1970-01-01) is a Thursday.
weekday(d) == (d + 3) % 7

\* datetime.date()
date(dt) == dt.day

\* datetime < datetime
datetime_lt(a, b) == a.day < b.day \/ (a.day = b.day /\ a.minute < b.minute)

LogEntry(dt, w) == [datetime |-> dt, weight |-> w]

LogEntry_lt(a, b) == datetime_lt(a.datetime, b.datetime)

WeeklyAverage(dt, w) == [datetime |-> dt, weight |-> w]

datetime_to_epoch(t) == t.day * MsPerDay + t.minute * MsPerMinute

\* ---- parse_log -------------------------------------------------------------
\* The loop "for line in infile": a datestring that fails TIME_FORMAT ends in
\* error() (sys.exit), a weight float() rejects raises ValueError, uncaught;
\* both leave the entries appended so far.
RECURSIVE read_lines_skipping(_, _, _)
read_lines_skipping(lines, k, acc) ==
  IF k > Len(lines) THEN [status |-> "ok", log_entries |-> acc]
  ELSE IF ~lines[k].ts_ok \/ ~lines[k].w_ok THEN read_lines_skipping(lines, k + 1, acc)
  ELSE read_lines_skipping(lines, k + 1,
                           Append(acc, LogEntry(lines[k].datetime, lines[k].weight)))

RECURSIVE read_lines(_, _, _)
read_lines(lines, k, acc) ==
  IF k > Len(lines) THEN [status |-> "ok", log_entries |-> acc]
  ELSE IF ~lines[k].ts_ok THEN [status |-> "MalformedTimestamp", log_entries |-> acc]
  ELSE IF ~lines[k].w_ok THEN [status |-> "ValueError", log_entries |-> acc]
  ELSE read_lines(lines, k + 1, Append(acc, LogEntry(lines[k].datetime, lines[k].weight)))

\* list.sort() is stable and compares with LogEntry.__lt__ only: e goes in
\* front of the first element it is less than.
RECURSIVE insort(_, _, _)
insort(sorted, e, i) ==
  IF i > Len(sorted) THEN Append(sorted, e)
  ELSE IF LogEntry_lt(e, sorted[i])
       THEN SubSeq(sorted, 1, i - 1) \o << e >> \o SubSeq(sorted, i, Len(sorted))
       ELSE insort(sorted, e, i + 1)

RECURSIVE sort_from(_, _, _)
sort_from(entries, k, acc) ==
  IF k > Len(entries) THEN acc ELSE sort_from(entries, k + 1, insort(acc, entries[k], 1))

log_entries_unsorted(entries) == entries

log_entries_sort(entries) == sort_from(entries, 1, << >>)

parse_log(f) ==
  IF ~f.exists
  THEN [status |-> "FileNotFound", log_entries |-> << >>, num_entries |-> None,
        start_date |-> None, end_date |-> None]
  ELSE LET r == read_lines(f.lines, 1, << >>)
           n == Len(r.log_entries)
           sorted == log_entries_sort(r.log_entries)
       IN IF r.status # "ok"
          THEN [status |-> r.status, log_entries |-> r.log_entries, num_entries |-> None,
                start_date |-> None, end_date |-> None]
          ELSE IF n <= 0
          THEN [status |-> "EmptyLog", log_entries |-> r.log_entries, num_entries |-> n,
                start_date |-> None, end_date |-> None]
          ELSE [status |-> "ok", log_entries |-> sorted, num_entries |-> n,
                start_date |-> date(sorted[1].datetime),
                end_date |-> date(sorted[Len(sorted)].datetime)]

\* ---- generate_sundays_in_range / find_first_sunday ---------------------------
find_first_sunday_from_seven(start) == start + (7 - weekday(start))

find_first_sunday(start) == start + (SUNDAY - weekday(start))

\* while date <= end_date: sundays.append(date); date += timedelta(days=7)
RECURSIVE while_date_in_range(_, _, _)
while_date_in_range(d, end, acc) ==
  IF d <= end THEN while_date_in_range(d + 7, end, Append(acc, d)) ELSE acc

generate_sundays_before_end(start, end) ==
  while_date_in_range(find_first_sunday(start), end - 1, << >>)

generate_sundays_in_range(start, end) ==
  while_date_in_range(find_first_sunday(start), end, << >>)

\* ---- compute_weekly_averages -------------------------------------------------
in_window_closed(d, previous_sunday, sunday) == d >= previous_sunday /\ d <= sunday

\* entry.datetime.date() > previous_sunday and entry.datetime.date() <= sunday
in_window(d, previous_sunday, sunday) == d > previous_sunday /\ d <= sunday

\* the inner loop over self.log_entries: the entries it appends to total_weight
total_weight(entries, previous_sunday, sunday) ==
  SelectSeq([i \in 1..Len(entries) |-> i],
            LAMBDA i : in_window(date(entries[i].datetime), previous_sunday, sunday))

RECURSIVE sum(_, _)
sum(entries, tw) ==
  IF tw = << >> THEN 0 ELSE entries[Head(tw)].weight + sum(entries, Tail(tw))

\* sum(total_weight) / entries, kept as the exact quotient num/den
average_weight(entries, tw) == [num |-> sum(entries, tw), den |-> Len(tw)]

end_of_week_midnight(sunday) == [day |-> sunday, minute |-> 0]

\* datetime.combine(sunday, time(23,59))
end_of_week(sunday) == [day |-> sunday, minute |-> EndOfDayMinute]

previous_sunday_kept(previous_sunday, sunday) == previous_sunday

\* previous_sunday = sunday
previous_sunday_next(previous_sunday, sunday) == sunday

\* for sunday in sundays: ...
RECURSIVE for_sunday_in_sundays(_, _, _, _, _)
for_sunday_in_sundays(entries, sundays_, k, previous_sunday, acc) ==
  IF k > Len(sundays_) THEN acc
  ELSE LET sunday == sundays_[k]
           tw == total_weight(entries, previous_sunday, sunday)
           avgs == IF Len(tw) > 0
                   THEN Append(acc.weekly_averages,
                               WeeklyAverage(end_of_week(sunday), average_weight(entries, tw)))
                   ELSE acc.weekly_averages
       IN for_sunday_in_sundays(entries, sundays_, k + 1,
                                previous_sunday_next(previous_sunday, sunday),
                                [buckets |-> Append(acc.buckets, tw),
                                 weekly_averages |-> avgs])

compute_weekly_averages_raising(entries, start, end, averages) ==
  LET sundays_ == generate_sundays_in_range(start, end)
      r == for_sunday_in_sundays(entries, sundays_, 1, sundays_[1] - 7,
                                 [buckets |-> << >>, weekly_averages |-> averages])
  IN IF Len(sundays_) = 0
     THEN [status |-> "IndexError", sundays |-> sundays_, span_error |-> FALSE,
           buckets |-> << >>, weekly_averages |-> averages]
     ELSE [status |-> "ok", sundays |-> sundays_, span_error |-> FALSE,
           buckets |-> r.buckets, weekly_averages |-> r.weekly_averages]

\* sundays[0] of an empty list raises IndexError, which is caught: the message
\* is printed, previous_sunday stays unbound and the loop body never runs.
compute_weekly_averages(entries, start, end, averages) ==
  LET sundays_ == generate_sundays_in_range(start, end)
      no_sunday == Len(sundays_) = 0
      previous_sunday == IF no_sunday THEN None ELSE sundays_[1] - 7
      r == for_sunday_in_sundays(entries, sundays_, 1, previous_sunday,
                                 [buckets |-> << >>, weekly_averages |-> averages])
  IN [status |-> "ok", sundays |-> sundays_, span_error |-> no_sunday,
      buckets |-> r.buckets, weekly_averages |-> r.weekly_averages]

\* ---- write_to_csv --------------------------------------------------------------
\* "{:.1f}".format(x): x rounded to one decimal, an exact tie going to the even
\* digit (the quotients met here are exact in binary floating point); the
\* result is the printed number in tenths.
format_1f(x) ==
  LET q == x.num \div x.den
      r == x.num % x.den
  IN IF 2 * r < x.den THEN q
     ELSE IF 2 * r > x.den THEN q + 1
     ELSE IF q % 2 = 0 THEN q ELSE q + 1

\* [datetime, weight, ""]
entry_row(entry) ==
  [date |-> datetime_to_epoch(entry.datetime), weight |-> << entry.weight >>, average |-> Empty]

\* [datetime, "", average_weight]
average_row(entry) ==
  [date |-> datetime_to_epoch(entry.datetime), weight |-> Empty,
   average |-> << format_1f(entry.weight) >>]

entries_and_averages(entries, averages) ==
  [i \in 1..Len(entries) |-> entry_row(entries[i])] \o
  [i \in 1..Len(averages) |-> average_row(averages[i])]

\* list < list compares the first pair of unequal elements.  With equal
\* dates that pair is (weight, "") or ("", weight) for an entry row against
\* an average row: float < str, which Python 3 refuses with TypeError.
row_lt_raises(a, b) == a.date = b.date /\ ((a.weight = Empty) # (b.weight = Empty))

\* With equal dates two entry rows compare their weights; two average rows
\* compare their average strings (all of one length here, so as numbers).
row_lt(a, b) ==
  \/ a.date < b.date
  \/ /\ a.date = b.date
     /\ a.weight # Empty /\ b.weight # Empty
     /\ a.weight[1] < b.weight[1]
  \/ /\ a.date = b.date
     /\ a.weight = Empty /\ b.weight = Empty
     /\ a.average[1] < b.average[1]

RECURSIVE insort_row(_, _, _)
insort_row(sorted, e, i) ==
  IF i > Len(sorted) THEN Append(sorted, e)
  ELSE IF row_lt(e, sorted[i])
       THEN SubSeq(sorted, 1, i - 1) \o << e >> \o SubSeq(sorted, i, Len(sorted))
       ELSE insort_row(sorted, e, i + 1)

RECURSIVE sort_rows_from(_, _, _)
sort_rows_from(rows, k, acc) ==
  IF k > Len(rows) THEN acc ELSE sort_rows_from(rows, k + 1, insort_row(acc, rows[k], 1))

\* entries_and_averages.sort(): a sort has to compare two rows of equal date
\* with each other to place them, so it raises whenever an entry row and an
\* average row share their date; the file is opened only after the sort.
write_to_csv(entries, averages) ==
  LET rows == entries_and_averages(entries, averages)
  IN IF \E i, j \in 1..Len(rows) : row_lt_raises(rows[i], rows[j])
     THEN [status |-> "TypeError", rows |-> << >>]
     ELSE [status |-> "ok", rows |-> sort_rows_from(rows, 1, << >>)]

\* ---- main(), the generate command -------------------------------------------
Init ==
  /\ pc = "start"
  /\ err = "none"
  /\ file \in Files
  /\ outfile \in OutFiles
  /\ log_entries = << >>
  /\ num_entries = None
  /\ start_date = None
  /\ end_date = None
  /\ sundays = << >>
  /\ buckets = << >>
  /\ weekly_averages = << >>
  /\ span_error = FALSE

\* weight_log.parse_log(WEIGHT_LOG)
ParseLog ==
  /\ pc = "start"
  /\ LET r == parse_log(file)
     IN /\ pc' = IF r.status = "ok" THEN "parsed" ELSE "exited"
        /\ err' = IF r.status = "ok" THEN "none" ELSE r.status
        /\ log_entries' = r.log_entries
        /\ num_entries' = r.num_entries
        /\ start_date' = r.start_date
        /\ end_date' = r.end_date
  /\ UNCHANGED << file, outfile, sundays, buckets, weekly_averages, span_error >>

\* weight_log.compute_weekly_averages()
ComputeWeeklyAverages ==
  /\ pc = "parsed"
  /\ LET r == compute_weekly_averages(log_entries, start_date, end_date, weekly_averages)
     IN /\ pc' = IF r.status = "ok" THEN "computed" ELSE "exited"
        /\ err' = IF r.status = "ok" THEN "none" ELSE r.status
        /\ sundays' = r.sundays
        /\ buckets' = r.buckets
        /\ weekly_averages' = r.weekly_averages
        /\ span_error' = r.span_error
  /\ UNCHANGED << file, outfile, log_entries, num_entries, start_date, end_date >>

\* weight_log.write_to_csv(OUTPUT_FILE)
WriteToCsv ==
  /\ pc = "computed"
  /\ LET r == write_to_csv(log_entries, weekly_averages)
     IN /\ pc' = IF r.status = "ok" THEN "done" ELSE "exited"
        /\ err' = IF r.status = "ok" THEN "none" ELSE r.status
        /\ outfile' = IF r.status = "ok" THEN [status |-> "written", rows |-> r.rows]
                      ELSE outfile
  /\ UNCHANGED << file, log_entries, num_entries, start_date, end_date,
                  sundays, buckets, weekly_averages, span_error >>

Next == ParseLog \/ ComputeWeeklyAverages \/ WriteToCsv

Spec == Init /\ [][Next]_vars

\* ==== properties ================================================================
\* Vocabulary of the properties below.
ParseErrors == {"FileNotFound", "MalformedTimestamp", "ValueError", "EmptyLog"}
Loaded == pc # "start" /\ err \notin ParseErrors          \* parse_log returned
AfterCompute == Loaded /\ pc # "parsed"                   \* compute_weekly_averages ran
AfterWrite == AfterCompute /\ pc # "computed"             \* write_to_csv ran
IsSunday(d) == d % 7 = 3                                  \* 1970-01-04 is a Sunday
EntryDate(i) == log_entries[i].datetime.day
\* how many times compute_weekly_averages counted entry i, over all buckets
TimesCounted(i) ==
  Cardinality({ kj \in { << k, j >> : k \in 1..Len(buckets), j \in 1..Len(log_entries) } :
                  kj[2] <= Len(buckets[kj[1]]) /\ buckets[kj[1]][kj[2]] = i })
\* the window (previous_boundary, boundary] of boundary k
LowerEdge(k) == IF k = 1 THEN sundays[1] - 7 ELSE sundays[k - 1]
Window(k) == { i \in 1..Len(log_entries) : LowerEdge(k) < EntryDate(i) /\ EntryDate(i) <= sundays[k] }
RECURSIVE WeightOf(_)
WeightOf(S) ==
  IF S = {} THEN 0 ELSE LET i == CHOOSE x \in S : TRUE IN log_entries[i].weight + WeightOf(S \ {i})
TheEntry == LogEntry(file.lines[1].datetime, file.lines[1].weight)
SingleEntryLog ==
  file.exists /\ Len(file.lines) = 1 /\ file.lines[1].ts_ok /\ file.lines[1].w_ok
FatalInput ==
  \/ ~file.exists
  \/ Len(file.lines) = 0
  \/ \E k \in 1..Len(file.lines) : ~file.lines[k].ts_ok \/ ~file.lines[k].w_ok
Count(seq, e) == Cardinality({ i \in 1..Len(seq) : seq[i] = e })
FileEntries == [k \in 1..Len(file.lines) |-> LogEntry(file.lines[k].datetime, file.lines[k].weight)]
EntryRows == { r \in 1..Len(outfile.rows) : outfile.rows[r].weight # Empty }
AverageRows == { r \in 1..Len(outfile.rows) : outfile.rows[r].average # Empty }
Tie ==
  \E i \in 1..Len(log_entries), k \in 1..Len(weekly_averages) :
    log_entries[i].datetime = weekly_averages[k].datetime

\* C1: with a non-empty boundary sequence, every observation dated within
\* [boundaries[0] - 7 days, boundaries[last]] is counted in the bucket of
\* exactly one boundary: never twice, never in none.
C1_Partition ==
  (AfterCompute /\ sundays # << >>) =>
    \A i \in 1..Len(log_entries) :
      (sundays[1] - 7 <= EntryDate(i) /\ EntryDate(i) <= sundays[Len(sundays)])
        => TimesCounted(i) = 1

C1_Witness ==
  /\ AfterCompute /\ Len(sundays) = 2
  /\ \E i \in 1..Len(log_entries) : EntryDate(i) = sundays[1]
  /\ \E i \in 1..Len(log_entries) : EntryDate(i) = sundays[2]

C4_InsufficientSpan ==
  (AfterCompute /\ sundays = << >>) =>
    /\ pc \in {"computed", "done"} /\ err = "none"
    /\ span_error /\ weekly_averages = << >>
    /\ pc = "done" =>
         /\ outfile.status = "written"
         /\ Len(outfile.rows) = Len(log_entries)
         /\ \A r \in 1..Len(outfile.rows) :
              /\ outfile.rows[r].weight # Empty /\ outfile.rows[r].average = Empty
              /\ Count(outfile.rows, outfile.rows[r])
                   = Count([i \in 1..Len(log_entries) |-> entry_row(log_entries[i])],
                           outfile.rows[r])

C4_Witness ==
  pc = "done" /\ sundays = << >> /\ span_error /\ Len(log_entries) = 2
  /\ Len(outfile.rows) = 2

\* C5: for N observations and K weekly averages write_to_csv builds exactly
\* N + K rows, N with only the weight present and K with only the weekly
\* average present, in ascending order of epoch-millisecond timestamp.
C5_MergedSeries ==
  AfterWrite =>
    /\ outfile.status = "written"
    /\ Len(outfile.rows) = Len(log_entries) + Len(weekly_averages)
    /\ Cardinality(EntryRows) = Len(log_entries)
    /\ Cardinality(AverageRows) = Len(weekly_averages)
    /\ EntryRows \cap AverageRows = {}
    /\ \A r \in 1..(Len(outfile.rows) - 1) : outfile.rows[r].date <= outfile.rows[r + 1].date

\* C6: one call of compute_weekly_averages on an empty weekly_averages yields
\* one WeeklyAverage per boundary with a non-empty bucket and none for an empty
\* bucket, in ascending boundary order, each dated its boundary at 23:59 and
\* equal to the bucket's sum of weights divided by its number of observations.
C6_Averages ==
  AfterCompute =>
    LET NonEmpty == { k \in 1..Len(sundays) : Window(k) # {} }
    IN /\ Len(weekly_averages) = Cardinality(NonEmpty)
       /\ \A k \in NonEmpty :
            LET j == Cardinality({ h \in NonEmpty : h <= k })
                a == weekly_averages[j]
            IN /\ a.datetime = [day |-> sundays[k], minute |-> 1439]
               /\ a.weight.den > 0
               /\ a.weight.num * Cardinality(Window(k)) = WeightOf(Window(k)) * a.weight.den

C6_Witness ==
  AfterCompute /\ Len(sundays) = 3 /\ Len(weekly_averages) = 2 /\ Window(2) = {}

C8_FatalStopsRun ==
  FatalInput =>
    /\ pc \in {"start", "exited"}
    /\ pc = "exited" => err \in ParseErrors
    /\ outfile \in OutFiles
    /\ sundays = << >> /\ buckets = << >> /\ weekly_averages = << >> /\ ~span_error

C8_Witness ==
  pc = "exited" /\ err = "ValueError" /\ outfile.status = "stale" /\ Len(log_entries) = 1

\* C9: whatever the order of the records in the file, parse_log leaves
\* log_entries sorted ascending by timestamp with the multiset of the file's
\* entries, start_date the earliest and end_date the latest calendar date, and
\* so start_date <= end_date.
C9_Sorted ==
  Loaded =>
    /\ \A i, j \in 1..Len(log_entries) :
         i < j => ~datetime_lt(log_entries[j].datetime, log_entries[i].datetime)
    /\ Len(log_entries) = Len(file.lines) /\ num_entries = Len(file.lines)
    /\ \A k \in 1..Len(file.lines) :
         Count(log_entries, FileEntries[k]) = Count(FileEntries, FileEntries[k])
    /\ \A i \in 1..Len(log_entries) : start_date <= EntryDate(i) /\ EntryDate(i) <= end_date
    /\ \E i \in 1..Len(log_entries) : start_date = EntryDate(i)
    /\ \E i \in 1..Len(log_entries) : end_date = EntryDate(i)
    /\ start_date <= end_date

C9_Witness ==
  /\ Loaded /\ Len(file.lines) = 2
  /\ datetime_lt(file.lines[2].datetime, file.lines[1].datetime)

\* C10: when an observation and a weekly average share the same instant,
\* write_to_csv still completes and emits both rows, the observation's row
\* before the average's row.
C10_TieByStability ==
  (AfterWrite /\ Tie) =>
    /\ pc = "done" /\ outfile.status = "written"
    /\ \E r, q \in 1..Len(outfile.rows) :
         /\ r < q
         /\ outfile.rows[r].date = outfile.rows[q].date
         /\ outfile.rows[r].weight # Empty /\ outfile.rows[q].average # Empty

====
